---- MODULE Spec2Model ----
(***************************************************************************)
(* ZendeskClient (src/src/zendesk_mcp_server/zendesk_client.py): the five  *)
(* operations of the client over the external ticket store, the agent      *)
(* directory (nameToIdsMap) and the priority score.                        *)
(*                                                                         *)
(* Strings the code inspects character by character (agent identifiers,    *)
(* agent names) are sequences of one-character strings.  Timestamps are    *)
(* whole hours; the sample instants are multiples of six hours, for which  *)
(* the double arithmetic of get_ticket_priority is exact, so a score is    *)
(* kept as a numerator over HoursPerDay.                                   *)
(***************************************************************************)
EXTENDS Integers, Sequences, FiniteSets, TLC

----------------------------------------------------------------------------
(* Bounds of the model *)

\* Longest agent identifier a caller passes (characters).
MaxIdLen == 4

\* Most comments the tickets of the store hold, all together.
MaxComments == 2

----------------------------------------------------------------------------
(* Program constants *)

SlaBonus == 100
HoursPerDay == 24
AgeWeight == 5
ResponseWeight == 10

----------------------------------------------------------------------------
(* Python str methods used by get_tickets_by_agent *)

Digits == {"0", "1"}
Whitespace == {" "}
Alphabet == {"a", "A", "b", " ", "0", "1"}

\* str.isdigit(): non-empty and every character a digit.
isdigit(s) == Len(s) > 0 /\ \A i \in 1..Len(s) : s[i] \in Digits

DigitValue(c) == IF c = "1" THEN 1 ELSE 0

\* int(s) of a digit string: base-10 fold, leading zeros dropped.
RECURSIVE int(_)
int(s) ==
    IF s = <<>> THEN 0
    ELSE 10 * int(SubSeq(s, 1, Len(s) - 1)) + DigitValue(s[Len(s)])

LowerChar(c) == IF c = "A" THEN "a" ELSE IF c = "B" THEN "b" ELSE c

\* str.lower()
lower(s) == [i \in 1..Len(s) |-> LowerChar(s[i])]

RECURSIVE SplitLoop(_, _, _)
SplitLoop(s, cur, acc) ==
    IF s = <<>>
    THEN (IF cur = <<>> THEN acc ELSE Append(acc, cur))
    ELSE IF Head(s) \in Whitespace
         THEN SplitLoop(Tail(s), <<>>, IF cur = <<>> THEN acc ELSE Append(acc, cur))
         ELSE SplitLoop(Tail(s), Append(cur, Head(s)), acc)

\* str.split() with no separator: the maximal runs of non-whitespace.
split(s) == SplitLoop(s, <<>>, <<>>)

----------------------------------------------------------------------------
(* Exceptions: a message is a chain of parts, outermost first; each part   *)
(* has the literal text and the value formatted into it.                   *)

Exc(text, arg) == <<[text |-> text, arg |-> arg]>>

\* A wrapper that leaves the cause out of its message.
WrapWithoutCause(text, arg, e) == Exc(text, arg)

\* raise Exception(f"{text} {arg}: {str(e)}")
Wrap(text, arg, e) == Exc(text, arg) \o e

IndexError == Exc("list index out of range", <<>>)

\* What the store's client raises when a call fails.
StoreError == Exc("TransportFailure", <<>>)

----------------------------------------------------------------------------
(* The agent directory *)

\* A loop that collects each matching id once.
RECURSIVE MatchLoopDistinct(_, _, _)
MatchLoopDistinct(items, first_name, matching_agent_ids) ==
    IF items = <<>> THEN [raised |-> <<>>, ids |-> matching_agent_ids]
    ELSE LET full_name == Head(items)[1]
             user_id == Head(items)[2]
         IN IF split(full_name) = <<>>
            THEN [raised |-> IndexError, ids |-> <<>>]
            ELSE MatchLoopDistinct(Tail(items), first_name,
                     IF /\ lower(split(full_name)[1]) = first_name
                        /\ \A k \in 1..Len(matching_agent_ids) :
                               matching_agent_ids[k] # user_id
                     THEN Append(matching_agent_ids, user_id)
                     ELSE matching_agent_ids)

\* for full_name, user_id in self.nameToIdsMap.items(): ... (lines 130-134).
\* The result is [raised, ids]: full_name.split()[0] raises IndexError on a
\* name without a token.
RECURSIVE MatchLoop(_, _, _)
MatchLoop(items, first_name, matching_agent_ids) ==
    IF items = <<>> THEN [raised |-> <<>>, ids |-> matching_agent_ids]
    ELSE LET full_name == Head(items)[1]
             user_id == Head(items)[2]
         IN IF split(full_name) = <<>>
            THEN [raised |-> IndexError, ids |-> <<>>]
            ELSE MatchLoop(Tail(items), first_name,
                     IF lower(split(full_name)[1]) = first_name
                     THEN Append(matching_agent_ids, user_id)
                     ELSE matching_agent_ids)

\* agent_identifier in self.nameToIdsMap
InMap(map, name) == \E i \in 1..Len(map) : map[i][1] = name

\* self.nameToIdsMap[agent_identifier]
MapGet(map, name) == map[CHOOSE i \in 1..Len(map) : map[i][1] = name][2]

NotFoundText == "No agent found with name or ID"

\* Lines 126-137: the first-name match.
FirstNameMatch(map, agent_identifier) ==
    IF split(agent_identifier) = <<>>
    THEN [raised |-> IndexError, ids |-> <<>>]
    ELSE LET first_name == lower(split(agent_identifier)[1])
             m == MatchLoop(map, first_name, <<>>)
         IN IF m.raised # <<>> THEN m
            ELSE IF m.ids = <<>>
            THEN [raised |-> Exc(NotFoundText, <<agent_identifier>>), ids |-> <<>>]
            ELSE m

\* A resolution that looks the identifier up in the table before it tests
\* for digits.
ResolveAgentTableFirst(map, agent_identifier) ==
    IF InMap(map, agent_identifier)
    THEN [raised |-> <<>>, ids |-> <<MapGet(map, agent_identifier)>>]
    ELSE IF isdigit(agent_identifier)
    THEN [raised |-> <<>>, ids |-> <<int(agent_identifier)>>]
    ELSE FirstNameMatch(map, agent_identifier)

\* A resolution without the exact full-name match.
ResolveAgentByFirstName(map, agent_identifier) ==
    IF isdigit(agent_identifier)
    THEN [raised |-> <<>>, ids |-> <<int(agent_identifier)>>]
    ELSE FirstNameMatch(map, agent_identifier)

\* Lines 112-137: the assignee ids get_tickets_by_agent searches for, in
\* order, or the exception raised before any search.
ResolveAgent(map, agent_identifier) ==
    IF isdigit(agent_identifier)
    THEN [raised |-> <<>>, ids |-> <<int(agent_identifier)>>]
    ELSE IF InMap(map, agent_identifier)
    THEN [raised |-> <<>>, ids |-> <<MapGet(map, agent_identifier)>>]
    ELSE FirstNameMatch(map, agent_identifier)

----------------------------------------------------------------------------
(* The external ticket store *)

\* The tickets the store holds, and the ticket ids a caller passes (4 is no
\* ticket of the store).
TicketIds == {1, 2, 3}
TicketArgs == TicketIds \cup {4}

\* Instants (hours) tickets and comments are created at and the clock shows.
Times == {0, 6, 24, 30}

Statuses == {"open", "Open", "new", "pending", "solved", "ENG Confirmed Bug"}

TagSets == SUBSET {"sla_enterprise", "vip"}

Bodies == {"hi", "<b>x</b>"}

\* str.lower() on a ticket status or a status of the search filter.
StatusLower(s) ==
    CASE s = "Open" -> "open"
      [] s = "Pending" -> "pending"
      [] s = "Feature Request Review Pending" -> "feature request review pending"
      [] s = "ENG Confirmed Bug" -> "eng confirmed bug"
      [] OTHER -> s

\* The status clauses of the query string of lines 115, 123 and 142.
StatusFilter ==
    {"open", "pending", "Feature Request Review Pending", "ENG Confirmed Bug"}

\* One call to the store: its operation, the ticket or assignee id, the
\* status clauses of a search, the comment of an update, and whether it
\* succeeded.
Call(op, id, statuses, comment, ok) ==
    [op |-> op, id |-> id, statuses |-> statuses, comment |-> comment, ok |-> ok]

RECURSIVE IdsFrom(_, _, _, _)
IdsFrom(store, ids, assignee, statuses) ==
    IF ids = {} THEN <<>>
    ELSE LET i == CHOOSE x \in ids : \A y \in ids : x <= y
         IN (IF /\ store[i].assignee_id = assignee
                /\ StatusLower(store[i].status) \in {StatusLower(s) : s \in statuses}
             THEN <<i>> ELSE <<>>) \o IdsFrom(store, ids \ {i}, assignee, statuses)

\* TicketStore.search: the ids of the tickets assigned to assignee whose
\* status is one of statuses (OR across the status clauses, AND with the
\* assignee), in id order.
SearchStore(store, assignee, statuses) ==
    IdsFrom(store, DOMAIN store, assignee, statuses)

----------------------------------------------------------------------------
(* The priority score, lines 165-205 *)

\* status_scores.get(key, 0)
status_scores(key) ==
    CASE key = "open" -> 100
      [] key = "new" -> 75
      [] key = "pending" -> 25
      [] key = "feature request review pending" -> 0
      [] key = "eng confirmed bug" -> 0
      [] OTHER -> 0

\* The last comment of the list, as if the list were in order of creation.
last_comment(comments) == comments[Len(comments)]

\* max(comments, key=lambda c: c.created_at): the first comment among those
\* with the greatest created_at.
latest_comment(comments) ==
    comments[CHOOSE i \in 1..Len(comments) :
                /\ \A j \in 1..Len(comments) :
                       comments[j].created_at <= comments[i].created_at
                /\ \A j \in 1..(i - 1) :
                       comments[j].created_at < comments[i].created_at]

\* Rounding down instead of toward zero.
PyFloor(num, den) == num \div den

\* int(x) of the float num/den: truncation toward zero.
PyInt(num, den) == IF num >= 0 THEN num \div den ELSE -((-num) \div den)

\* Line 167-168: the tag bonus, as a numerator over HoursPerDay.
TagScore(ticket) ==
    IF ticket.tags # {} /\ "sla_enterprise" \in ticket.tags
    THEN SlaBonus * HoursPerDay ELSE 0

\* Lines 177-178: (ticket_age_hours / 24) * 5, as a numerator over HoursPerDay.
AgeScore(ticket, t) == (t - ticket.created_at) * AgeWeight

\* Lines 181-191: (hours_since_response / 24) * 10, as a numerator over
\* HoursPerDay; nothing is added for a ticket without comments.
ResponseScore(comments, t) ==
    IF comments # <<>>
    THEN (t - latest_comment(comments).created_at) * ResponseWeight
    ELSE 0

\* Lines 202-203.
StatusScore(ticket) == status_scores(StatusLower(ticket.status)) * HoursPerDay

\* Line 205: return int(priority_score)
PriorityScore(ticket, comments, t) ==
    PyInt(TagScore(ticket) + AgeScore(ticket, t) + ResponseScore(comments, t)
              + StatusScore(ticket),
          HoursPerDay)

----------------------------------------------------------------------------
(* State *)

VARIABLES
    nameToIdsMap,       \* self.nameToIdsMap: <<full name, id>> pairs in load order
    tickets,            \* the store: ticket id -> ticket, with its comments
    now,                \* datetime.now(timezone.utc), in hours
    calls,              \* the store calls of the latest operation, in order
    result,             \* the latest operation: its arguments and what it returned or raised
    returned_priority   \* ticket id -> the score returned by the calls of
                        \* get_ticket_priority since the latest other operation

vars == <<nameToIdsMap, tickets, now, calls, result, returned_priority>>

Res(op, ticket_id, agent_identifier, comment, confirm_post, raised, value) ==
    [op |-> op, ticket_id |-> ticket_id, agent_identifier |-> agent_identifier,
     comment |-> comment, confirm_post |-> confirm_post,
     raised |-> raised, value |-> value]

NoResult == Res("none", 0, <<>>, <<>>, FALSE, <<>>, <<>>)

NoPriority == [i \in TicketIds |-> <<>>]

\* A store call succeeds unless the transport fails or the ticket is missing.
FetchOk(ticket_id, failed) == ticket_id \in TicketIds /\ ~failed

----------------------------------------------------------------------------
(* Initial states *)

\* Directory tables as loaded from nameToIdsMap.js: none (the load failed);
\* three agents, two sharing a first name up to case; a full name that is
\* another agent's first name; a digits-only key and two names with one id.
Tables ==
    { <<>>,
      << <<<<"A", " ", "b">>, 1>>, <<<<"a", " ", "a">>, 2>>, <<<<"b", " ", "a">>, 3>> >>,
      << <<<<"A">>, 1>>, <<<<"A", " ", "b">>, 2>>, <<<<"b">>, 3>> >>,
      << <<<<"1">>, 3>>, <<<<"b", " ", "1">>, 1>>, <<<<"B">>, 1>> >> }

OldComment(t) == [created_at |-> t, html_body |-> "old", public |-> TRUE]

SampleStore ==
    [i \in TicketIds |->
        CASE i = 1 -> [status |-> "open", tags |-> {"sla_enterprise"}, created_at |-> 0,
                       assignee_id |-> 1, comments |-> <<>>]
          [] i = 2 -> [status |-> "pending", tags |-> {}, created_at |-> 6,
                       assignee_id |-> 2, comments |-> <<OldComment(6)>>]
          [] OTHER -> [status |-> "new", tags |-> {"vip"}, created_at |-> 30,
                       assignee_id |-> 1, comments |-> <<>>]]

SampleTable ==
    << <<<<"A", " ", "b">>, 1>>, <<<<"a", " ", "a">>, 2>>, <<<<"b", " ", "a">>, 3>> >>

RECURSIVE TotalComments(_, _)
TotalComments(store, ids) ==
    IF ids = {} THEN 0
    ELSE LET i == CHOOSE x \in ids : TRUE
         IN Len(store[i].comments) + TotalComments(store, ids \ {i})

Init ==
    /\ nameToIdsMap = SampleTable
    /\ tickets = SampleStore
    /\ now = 24
    /\ calls = <<>>
    /\ result = NoResult
    /\ returned_priority = NoPriority

----------------------------------------------------------------------------
(* Operations *)

\* get_ticket, lines 49-69
GetTicket(ticket_id, failAt) ==
    LET ok == FetchOk(ticket_id, failAt = 1)
    IN /\ calls' = <<Call("fetchTicket", ticket_id, {}, <<>>, ok)>>
       /\ result' = Res("get_ticket", ticket_id, <<>>, <<>>, FALSE,
                        IF ok THEN <<>>
                        ELSE Wrap("Failed to get ticket", <<ticket_id>>, StoreError),
                        IF ok
                        THEN <<[id |-> ticket_id,
                                status |-> tickets[ticket_id].status,
                                created_at |-> [str |-> tickets[ticket_id].created_at],
                                assignee_id |-> tickets[ticket_id].assignee_id,
                                tags |-> tickets[ticket_id].tags]>>
                        ELSE <<>>)
       /\ returned_priority' = NoPriority
       /\ UNCHANGED <<nameToIdsMap, tickets, now>>

\* get_ticket_comments, lines 71-86
GetTicketComments(ticket_id, failAt) ==
    LET ok == FetchOk(ticket_id, failAt = 1)
    IN /\ calls' = <<Call("fetchComments", ticket_id, {}, <<>>, ok)>>
       /\ result' = Res("get_ticket_comments", ticket_id, <<>>, <<>>, FALSE,
                        IF ok THEN <<>>
                        ELSE Wrap("Failed to get comments for ticket", <<ticket_id>>,
                                  StoreError),
                        IF ok
                        THEN <<[k \in 1..Len(tickets[ticket_id].comments) |->
                                  LET c == tickets[ticket_id].comments[k]
                                  IN [body |-> c.html_body, public |-> c.public,
                                      created_at |-> [str |-> c.created_at]]]>>
                        ELSE <<>>)
       /\ returned_priority' = NoPriority
       /\ UNCHANGED <<nameToIdsMap, tickets, now>>

PermissionDenied ==
    Exc("Permission denied: confirm_post must be True to post comment", <<>>)

\* A post that is let through although it is not confirmed.
DeniedNever(confirm_post) == FALSE

\* Line 92: if not confirm_post
Denied(confirm_post) == ~confirm_post

\* An update that is attempted although the ticket could not be fetched.
PostCallsUnchecked(ticket_id, c, fetched, update_fails) ==
    <<Call("fetchTicket", ticket_id, {}, <<>>, fetched),
      Call("updateTicket", ticket_id, {}, <<c>>, ~update_fails)>>

\* Lines 96-101: the store calls of a confirmed post; the update is reached
\* only when the fetch returned the ticket.
PostCalls(ticket_id, c, fetched, update_fails) ==
    IF ~fetched THEN <<Call("fetchTicket", ticket_id, {}, <<>>, FALSE)>>
    ELSE <<Call("fetchTicket", ticket_id, {}, <<>>, TRUE),
           Call("updateTicket", ticket_id, {}, <<c>>, ~update_fails)>>

\* post_comment, lines 88-104
PostComment(ticket_id, comment, public, confirm_post, failAt) ==
    LET c == [html_body |-> comment, public |-> public]
        made == IF Denied(confirm_post) THEN <<>>
                ELSE PostCalls(ticket_id, c, FetchOk(ticket_id, failAt = 1), failAt = 2)
        written == made # <<>> /\ made[Len(made)].op = "updateTicket"
                     /\ made[Len(made)].ok
        failure == Wrap("Failed to post comment on ticket", <<ticket_id>>, StoreError)
    IN /\ written => TotalComments(tickets, TicketIds) < MaxComments
       /\ calls' = made
       /\ result' = Res("post_comment", ticket_id, <<>>, <<c>>, confirm_post,
                        IF Denied(confirm_post) THEN PermissionDenied
                        ELSE IF \E k \in 1..Len(made) : ~made[k].ok THEN failure
                        ELSE <<>>,
                        IF Denied(confirm_post) \/ \E k \in 1..Len(made) : ~made[k].ok
                        THEN <<>> ELSE <<comment>>)
       /\ tickets' =
            IF written
            THEN [tickets EXCEPT ![ticket_id].comments =
                     Append(@, [created_at |-> now, html_body |-> comment,
                                public |-> public])]
            ELSE tickets
       /\ returned_priority' = NoPriority
       /\ UNCHANGED <<nameToIdsMap, now>>

\* all_tickets after the searches for ids[1..n], lines 116, 124 and 140-143
RECURSIVE AllTickets(_, _, _)
AllTickets(store, ids, n) ==
    IF n = 0 THEN <<>>
    ELSE AllTickets(store, ids, n - 1) \o SearchStore(store, ids[n], StatusFilter)

\* Line 145
IdAndStatus(store, all_tickets) ==
    [k \in 1..Len(all_tickets) |->
        [id |-> all_tickets[k], status |-> store[all_tickets[k]].status]]

\* get_tickets_by_agent, lines 106-147
GetTicketsByAgent(agent_identifier, failAt) ==
    LET r == ResolveAgent(nameToIdsMap, agent_identifier)
        n == Len(r.ids)
        failed == failAt \in 1..n
        made == IF failed THEN failAt ELSE n
        raised == IF r.raised # <<>> THEN r.raised
                  ELSE IF failed THEN StoreError ELSE <<>>
    IN /\ calls' = [i \in 1..made |->
                      Call("search", r.ids[i], StatusFilter, <<>>, i # failAt)]
       /\ result' = Res("get_tickets_by_agent", 0, agent_identifier, <<>>, FALSE,
                        IF raised # <<>>
                        THEN Wrap("Failed to get tickets for agent",
                                  <<agent_identifier>>, raised)
                        ELSE <<>>,
                        IF raised # <<>> THEN <<>>
                        ELSE <<IdAndStatus(tickets, AllTickets(tickets, r.ids, n))>>)
       /\ returned_priority' = NoPriority
       /\ UNCHANGED <<nameToIdsMap, tickets, now>>

\* get_ticket_priority, lines 149-208
GetTicketPriority(ticket_id, failAt) ==
    LET fetched == FetchOk(ticket_id, failAt = 1)
        listed == fetched /\ failAt # 2
        failure == Wrap("Failed to calculate priority for ticket", <<ticket_id>>,
                        StoreError)
    IN /\ calls' =
            IF ~fetched THEN <<Call("fetchTicket", ticket_id, {}, <<>>, FALSE)>>
            ELSE <<Call("fetchTicket", ticket_id, {}, <<>>, TRUE),
                   Call("fetchComments", ticket_id, {}, <<>>, listed)>>
       /\ result' = Res("get_ticket_priority", ticket_id, <<>>, <<>>, FALSE,
                        IF listed THEN <<>> ELSE failure,
                        IF listed
                        THEN <<PriorityScore(tickets[ticket_id],
                                             tickets[ticket_id].comments, now)>>
                        ELSE <<>>)
       /\ returned_priority' =
            IF listed
            THEN [returned_priority EXCEPT ![ticket_id] = result'.value]
            ELSE returned_priority
       /\ UNCHANGED <<nameToIdsMap, tickets, now>>

----------------------------------------------------------------------------
(* The client under any sequence of calls *)

\* Which store call of an operation fails: none (0), the first or the second.
FailPoints == 0..2

\* Identifiers the callers of the full client pass.
SampleIdentifiers ==
    { <<"1">>, <<"0", "1">>, <<"A", " ", "b">>, <<"a">>, <<"b">>, <<"a", "b">>, <<>> }

Next ==
    \/ \E id \in TicketArgs, f \in FailPoints : GetTicket(id, f)
    \/ \E id \in TicketArgs, f \in FailPoints : GetTicketComments(id, f)
    \/ \E id \in TicketArgs, c \in Bodies, p \in BOOLEAN, cp \in BOOLEAN,
          f \in FailPoints : PostComment(id, c, p, cp, f)
    \/ \E a \in SampleIdentifiers, f \in FailPoints : GetTicketsByAgent(a, f)
    \/ \E id \in TicketArgs, f \in FailPoints : GetTicketPriority(id, f)

Spec == Init /\ [][Next]_vars

\* C1: a post_comment made with confirm_post false raises the permission
\* error, returns nothing, makes no store call (neither fetchTicket nor
\* updateTicket) and leaves the store as it was, whatever the ticket id, the
\* comment body and the visibility flag.
C1_UnconfirmedPostDenied ==
    [][(result'.op = "post_comment" /\ ~result'.confirm_post)
          => /\ result'.raised =
                   <<[text |-> "Permission denied: confirm_post must be True to post comment",
                      arg |-> <<>>]>>
             /\ result'.value = <<>>
             /\ calls' = <<>>
             /\ tickets' = tickets]_vars

\* C1 witness: postComment(id, "hi", true, confirmPost=false) on a ticket of
\* the store has been denied.
C1_Witness ==
    /\ result.op = "post_comment"
    /\ ~result.confirm_post
    /\ result.ticket_id \in TicketIds
    /\ result.comment = <<[html_body |-> "hi", public |-> TRUE]>>
    /\ result.raised # <<>>
    /\ calls = <<>>

IsFailure(text, id, raised) ==
    /\ Len(raised) = 2
    /\ raised[1] = [text |-> text, arg |-> <<id>>]
    /\ raised[2] = [text |-> "TransportFailure", arg |-> <<>>]

\* C9: when the ticket fetch or the comments fetch of get_ticket_priority
\* fails, the operation raises one error that names the ticket id and the
\* store's failure as its cause and returns no score; the failed call is the
\* last call made and no call is made twice, so a failed ticket fetch is not
\* followed by a comments fetch.
C9_ScoringFailed ==
    (result.op = "get_ticket_priority" /\ \E k \in 1..Len(calls) : ~calls[k].ok)
       => /\ IsFailure("Failed to calculate priority for ticket", result.ticket_id,
                       result.raised)
          /\ result.value = <<>>
          /\ ~calls[Len(calls)].ok
          /\ \A k \in 1..(Len(calls) - 1) : calls[k].ok
          /\ \A j, k \in 1..Len(calls) : j # k => calls[j].op # calls[k].op
          /\ calls[1].op = "fetchTicket"
          /\ ~calls[1].ok => Len(calls) = 1

\* C9 witness: the comments fetch failed after the ticket was fetched.
C9_Witness ==
    /\ result.op = "get_ticket_priority"
    /\ Len(calls) = 2
    /\ calls[1].ok
    /\ calls[2].op = "fetchComments"
    /\ ~calls[2].ok
    /\ result.raised # <<>>

\* C10: updateTicket is called only by a post_comment made with confirm_post
\* true, as the call that follows the successful fetchTicket of the same
\* ticket id, and once; no other operation calls it and only a successful
\* updateTicket changes the store; a post_comment whose fetchTicket fails
\* calls nothing more, writes nothing and raises instead of returning the
\* body.
C10_UpdateOnlyInConfirmedPost ==
    [][/\ \A k \in 1..Len(calls') :
             calls'[k].op = "updateTicket"
                => /\ result'.op = "post_comment"
                   /\ result'.confirm_post
                   /\ calls'[k].id = result'.ticket_id
                   /\ k = 2
                   /\ calls'[1].op = "fetchTicket"
                   /\ calls'[1].id = calls'[k].id
                   /\ calls'[1].ok
       /\ tickets' # tickets
             => /\ Len(calls') = 2
                /\ calls'[2].op = "updateTicket"
                /\ calls'[2].ok
       /\ result'.op \in {"get_ticket", "get_ticket_comments", "get_tickets_by_agent",
                          "get_ticket_priority"}
             => tickets' = tickets
       /\ (result'.op = "post_comment" /\ calls' # <<>> /\ ~calls'[1].ok)
             => /\ Len(calls') = 1
                /\ tickets' = tickets
                /\ result'.raised # <<>>
                /\ result'.value = <<>>]_vars

\* C10 witness: a confirmed post has fetched the ticket, updated it once and
\* returned the body.
C10_Witness ==
    /\ result.op = "post_comment"
    /\ result.confirm_post
    /\ Len(calls) = 2
    /\ calls[2].op = "updateTicket"
    /\ calls[2].ok
    /\ result.value = <<result.comment[1].html_body>>
    /\ \E k \in 1..Len(tickets[result.ticket_id].comments) :
          tickets[result.ticket_id].comments[k].html_body = result.comment[1].html_body

----------------------------------------------------------------------------
(* get_tickets_by_agent on every identifier, for every directory table *)

Identifiers == UNION { [1..n -> Alphabet] : n \in 0..MaxIdLen }

InitAgent ==
    /\ nameToIdsMap \in Tables
    /\ tickets = SampleStore
    /\ now = 24
    /\ calls = <<>>
    /\ result = NoResult
    /\ returned_priority = NoPriority

LookUpAgent ==
    /\ result = NoResult
    /\ \E a \in Identifiers, f \in FailPoints : GetTicketsByAgent(a, f)

SpecAgent == InitAgent /\ [][LookUpAgent]_vars

OnlyDigits(s) == s # <<>> /\ \A i \in 1..Len(s) : s[i] \in {"0", "1"}

RECURSIVE Pow10(_)
Pow10(n) == IF n = 0 THEN 1 ELSE 10 * Pow10(n - 1)

\* The number a digit string denotes: the sum of its digits times their
\* powers of ten.
RECURSIVE Decimal(_, _)
Decimal(s, i) ==
    IF i > Len(s) THEN 0
    ELSE (IF s[i] = "1" THEN 1 ELSE 0) * Pow10(Len(s) - i) + Decimal(s, i + 1)

IsKey(s) == \E i \in 1..Len(nameToIdsMap) : nameToIdsMap[i][1] = s

\* The first whitespace-delimited token of s, lowercased; <<>> when s has none.
FirstTokenLower(s) ==
    IF \A i \in 1..Len(s) : s[i] = " " THEN <<>>
    ELSE LET b == CHOOSE i \in 1..Len(s) :
                     s[i] # " " /\ \A j \in 1..(i - 1) : s[j] = " "
             e == CHOOSE i \in b..Len(s) :
                     /\ \A j \in b..i : s[j] # " "
                     /\ i < Len(s) => s[i + 1] = " "
         IN [k \in 1..(e - b + 1) |->
                CASE s[b + k - 1] = "A" -> "a"
                  [] s[b + k - 1] = "B" -> "b"
                  [] OTHER -> s[b + k - 1]]

SameFirstName(entry) ==
    /\ FirstTokenLower(result.agent_identifier) # <<>>
    /\ FirstTokenLower(entry[1]) = FirstTokenLower(result.agent_identifier)

\* The ids of the table entries with the identifier's first name, in table order.
FirstNameIds ==
    LET es == SelectSeq(nameToIdsMap, SameFirstName)
    IN [k \in 1..Len(es) |-> es[k][2]]

UnsolvedStatuses == {"open", "pending", "feature request review pending", "eng confirmed bug"}

\* What one search returns: id and status of the assignee's unsolved tickets.
Rows(assignee) ==
    LET ids == SearchStore(tickets, assignee, UnsolvedStatuses)
    IN [k \in 1..Len(ids) |-> [id |-> ids[k], status |-> tickets[ids[k]].status]]

RECURSIVE RowsOfAll(_, _)
RowsOfAll(ids, n) == IF n = 0 THEN <<>> ELSE RowsOfAll(ids, n - 1) \o Rows(ids[n])

IsSearch(c, assignee) ==
    /\ c.op = "search"
    /\ c.id = assignee
    /\ {StatusLower(st) : st \in c.statuses} = UnsolvedStatuses
    /\ "new" \notin c.statuses

\* C3: a digits-only identifier is resolved to the number it denotes, whatever
\* the table holds: exactly one search is made, for that assignee, filtered on
\* open, pending, feature request review pending and eng confirmed bug and
\* never on new; when the search succeeds its tickets are what is returned.
C3_NumericIdentifier ==
    (result.op = "get_tickets_by_agent" /\ OnlyDigits(result.agent_identifier))
       => /\ Len(calls) = 1
          /\ IsSearch(calls[1], Decimal(result.agent_identifier, 1))
          /\ calls[1].ok
                => /\ result.raised = <<>>
                   /\ result.value = <<Rows(Decimal(result.agent_identifier, 1))>>
                   /\ \A k \in 1..Len(result.value[1]) :
                          result.value[1][k].status # "new"

\* C3 witness: "1" is a key of the table, mapped to agent 3, and the search
\* was made for agent 1, who has an open and a new ticket; only the open one
\* came back.
C3_Witness ==
    /\ result.op = "get_tickets_by_agent"
    /\ result.agent_identifier = <<"1">>
    /\ IsKey(<<"1">>)
    /\ Len(calls) = 1
    /\ calls[1].id = 1
    /\ calls[1].ok
    /\ result.value = <<<<[id |-> 1, status |-> "open"]>>>>
    /\ \E t \in TicketIds : tickets[t].assignee_id = 1 /\ tickets[t].status = "new"

\* C4: an identifier that is not digits-only and is exactly a key of the table
\* is resolved to that key's id alone: one search, for that assignee, even
\* when other entries have the same first name.
C4_FullName ==
    (result.op = "get_tickets_by_agent" /\ ~OnlyDigits(result.agent_identifier)
        /\ IsKey(result.agent_identifier))
       => /\ Len(calls) = 1
          /\ \E i \in 1..Len(nameToIdsMap) :
                /\ nameToIdsMap[i][1] = result.agent_identifier
                /\ IsSearch(calls[1], nameToIdsMap[i][2])
          /\ calls[1].ok
                => /\ result.raised = <<>>
                   /\ result.value = <<Rows(calls[1].id)>>

\* C4 witness: the key "A" was looked up in a table where "A b" has the same
\* first name, and one search was made.
C4_Witness ==
    /\ result.op = "get_tickets_by_agent"
    /\ result.agent_identifier = <<"A">>
    /\ IsKey(<<"A">>)
    /\ Len(FirstNameIds) > 1
    /\ Len(calls) = 1
    /\ calls[1].ok

\* C5: an identifier that is not digits-only and is no key of the table is
\* resolved to the ids of the entries whose first token, lowercased, is the
\* identifier's first token, lowercased: the searches are made for these ids
\* in table order, one per entry, each after the one before succeeded, and
\* when there is such an entry and every search succeeds the operation
\* returns the results of all the searches, concatenated in that order,
\* duplicates kept; it returns in no other case.
C5_FirstName ==
    (result.op = "get_tickets_by_agent" /\ ~OnlyDigits(result.agent_identifier)
        /\ ~IsKey(result.agent_identifier))
       => /\ Len(calls) <= Len(FirstNameIds)
          /\ \A k \in 1..Len(calls) :
                /\ IsSearch(calls[k], FirstNameIds[k])
                /\ k < Len(calls) => calls[k].ok
          /\ (FirstNameIds # <<>> /\ \A k \in 1..Len(calls) : calls[k].ok)
                => /\ Len(calls) = Len(FirstNameIds)
                   /\ result.raised = <<>>
                   /\ result.value = <<RowsOfAll(FirstNameIds, Len(FirstNameIds))>>
          /\ result.raised = <<>>
                => (FirstNameIds # <<>> /\ \A k \in 1..Len(calls) : calls[k].ok)

\* C5 witness: "b" matched the entries "b 1" and "B", both of agent 1; two
\* searches were made and the open ticket of agent 1 was returned twice.
C5_Witness ==
    /\ result.op = "get_tickets_by_agent"
    /\ result.agent_identifier = <<"b">>
    /\ ~IsKey(<<"b">>)
    /\ Len(calls) = 2
    /\ calls[1].id = calls[2].id
    /\ result.value = <<<<[id |-> 1, status |-> "open"], [id |-> 1, status |-> "open"]>>>>

\* C6: an identifier that is not digits-only, is no key of the table and whose
\* first token is the first name of no entry (an identifier without a token
\* included) makes no search and fails with the not-found error, which
\* carries the identifier and is not a transport failure.
C6_NotFound ==
    (result.op = "get_tickets_by_agent" /\ ~OnlyDigits(result.agent_identifier)
        /\ ~IsKey(result.agent_identifier) /\ FirstNameIds = <<>>)
       => /\ calls = <<>>
          /\ result.value = <<>>
          /\ Len(result.raised) = 2
          /\ result.raised[1] = [text |-> "Failed to get tickets for agent",
                                 arg |-> <<result.agent_identifier>>]
          /\ result.raised[2] = [text |-> "No agent found with name or ID",
                                 arg |-> <<result.agent_identifier>>]

----------------------------------------------------------------------------
(* get_ticket_priority on every ticket, comment list and instant: ticket 1 *)
(* is any ticket, ticket 2 is ticket 1 with its sla_enterprise tag         *)
(* toggled, or with another creation time, or with another creation time   *)
(* of one comment; both are scored at the same instant.                    *)

CommentLists == UNION { [1..n -> {OldComment(t) : t \in Times}] : n \in 0..MaxComments }

Snapshots ==
    [status : Statuses, tags : TagSets, created_at : Times, assignee_id : {1},
     comments : CommentLists]

Toggle(tags) ==
    IF "sla_enterprise" \in tags
    THEN tags \ {"sla_enterprise"} ELSE tags \cup {"sla_enterprise"}

Variants(A) ==
    {[A EXCEPT !.tags = Toggle(@)]}
    \cup {[A EXCEPT !.created_at = t] : t \in Times}
    \cup {[A EXCEPT !.comments[k].created_at = t] :
             k \in 1..Len(A.comments), t \in Times}

InitScore ==
    /\ nameToIdsMap = SampleTable
    /\ now \in Times
    /\ \E A \in Snapshots : \E B \in Variants(A) :
          tickets = [i \in TicketIds |-> IF i = 2 THEN B ELSE A]
    /\ calls = <<>>
    /\ result = NoResult
    /\ returned_priority = NoPriority

ScoreTickets ==
    \E id \in {1, 2} :
       /\ returned_priority[id] = <<>>
       /\ id = 2 => returned_priority[1] # <<>>
       /\ GetTicketPriority(id, 0)

SpecScore == InitScore /\ [][ScoreTickets]_vars

BothScored == returned_priority[1] # <<>> /\ returned_priority[2] # <<>>

Tagged(id) == "sla_enterprise" \in tickets[id].tags

\* C2: of two tickets that differ only in the tag sla_enterprise, scored with
\* the same comments at the same instant, the tagged one scores exactly 100
\* more than the untagged one; creation times later than the instant included.
C2_TagAddsHundred ==
    \A i, j \in {1, 2} :
       (/\ BothScored
        /\ Tagged(i) /\ ~Tagged(j)
        /\ tickets[j] = [tickets[i] EXCEPT !.tags = @ \ {"sla_enterprise"}])
          => returned_priority[i][1] = returned_priority[j][1] + 100

\* Hours since the comment with the greatest created_at.
HoursSinceLatest(id) ==
    LET ts == {tickets[id].comments[k].created_at : k \in 1..Len(tickets[id].comments)}
    IN now - (CHOOSE t \in ts : \A u \in ts : u <= t)

\* C7: with status, tags and comments the same, the ticket of the greater age
\* (now minus created_at, negative ages included) scores no less; with
\* status, tags and creation time the same and a comment on both tickets, the
\* ticket with more hours since its latest comment scores no less.
C7_Monotone ==
    \A i, j \in {1, 2} :
       BothScored
          => /\ (/\ tickets[j] = [tickets[i] EXCEPT !.created_at = tickets[j].created_at]
                 /\ now - tickets[i].created_at <= now - tickets[j].created_at)
                   => returned_priority[i][1] <= returned_priority[j][1]
             /\ (/\ tickets[j] = [tickets[i] EXCEPT !.comments = tickets[j].comments]
                 /\ tickets[i].comments # <<>>
                 /\ tickets[j].comments # <<>>
                 /\ HoursSinceLatest(i) <= HoursSinceLatest(j))
                   => returned_priority[i][1] <= returned_priority[j][1]

\* C7 witness: ticket 1 was created after the instant of scoring, ticket 2 is
\* the same ticket created earlier, and ticket 2 scored strictly more.
C7_Witness ==
    /\ BothScored
    /\ tickets[1].created_at > now
    /\ tickets[2] = [tickets[1] EXCEPT !.created_at = tickets[2].created_at]
    /\ tickets[2].created_at < tickets[1].created_at
    /\ tickets[1].comments # <<>>
    /\ returned_priority[1][1] < returned_priority[2][1]

\* The sum of the components, times 24: 100 for the tag, 5 per day of age,
\* 10 per day since the latest comment, the weight of the status whatever
\* its case.
Sum24(id) ==
    (IF Tagged(id) THEN 100 * 24 ELSE 0)
    + 5 * (now - tickets[id].created_at)
    + (IF tickets[id].comments # <<>> THEN 10 * HoursSinceLatest(id) ELSE 0)
    + 24 * (CASE tickets[id].status \in {"open", "Open"} -> 100
              [] tickets[id].status = "new" -> 75
              [] tickets[id].status = "pending" -> 25
              [] OTHER -> 0)

\* r is n/24 with its fraction dropped.
TruncatedOf24(r, n) ==
    IF n >= 0
    THEN r >= 0 /\ 24 * r <= n /\ n < 24 * (r + 1)
    ELSE r <= 0 /\ 24 * r >= n /\ n > 24 * (r - 1)

====
